---- MODULE Spec2Model ----
(***************************************************************************)
(* Model of cc.py, the rule-driven CSV collector.                          *)
(*                                                                         *)
(* Strings are sequences of tokens.  A token is a one-character string     *)
(* ("a", "A", "b", ...), a field or rule name, or one of the literal       *)
(* pieces the program glues in (":", " AND ", " | ", "$match").  A dict    *)
(* is a sequence of <<key, value>> pairs in insertion order.  A regex is a *)
(* non-empty literal pattern; re.search finds its leftmost occurrence and  *)
(* re.sub replaces its non-overlapping occurrences from left to right.     *)
(***************************************************************************)
EXTENDS Integers, Sequences, FiniteSets, TLC

\* ---------------------------------------------------------------- bounds
MaxRules == 3
MaxFiles == 2

\* ------------------------------------------------------- python values
\* Python's None where a string value is expected (a DictReader short row,
\* a missing default-value).
NoneVal == <<"<None>">>

\* Python's None where a name is expected (a missing config key).
NoneName == "<None>"

\* rule.get("write-truth") of a rule without that key
NoWriteTruth == [field |-> NoneName, value |-> <<>>]

\* The marker a raising call returns in place of a match summary.
Raised == <<<<"<raise>">>>>

\* str.lower() on one token.
LowerTok(t) == IF t = "A" THEN "a" ELSE IF t = "B" THEN "b" ELSE IF t = "$MATCH" THEN "$match" ELSE t

\* str.lower()
Lower(s) == [i \in 1..Len(s) |-> LowerTok(s[i])]

\* ------------------------------------------------------------- dicts
Keys(d) == [i \in 1..Len(d) |-> d[i][1]]

InSeq(x, s) == \E i \in 1..Len(s) : s[i] = x

\* key in d
Has(d, k) == \E i \in 1..Len(d) : d[i][1] = k

\* list.index(x): position of the first occurrence
IndexOf(s, x) == CHOOSE i \in 1..Len(s) : s[i] = x /\ \A j \in 1..(i - 1) : s[j] # x

\* d[k]
Get(d, k) == d[IndexOf(Keys(d), k)][2]

\* d.get(k, dflt)
GetOr(d, k, dflt) == IF Has(d, k) THEN Get(d, k) ELSE dflt

\* d[k] = v : overwrite in place, or append a new key at the end
Put(d, k, v) == IF Has(d, k) THEN [i \in 1..Len(d) |-> IF d[i][1] = k THEN <<k, v>> ELSE d[i]] ELSE Append(d, <<k, v>>)

\* list.insert(idx0, x) with a 0-based index; an index past the end appends
InsertAt(s, idx0, x) == IF idx0 >= Len(s) THEN Append(s, x) ELSE SubSeq(s, 1, idx0) \o <<x>> \o SubSeq(s, idx0 + 1, Len(s))

\* sep.join(parts)
RECURSIVE Join(_, _)
Join(parts, sep) == IF parts = <<>> THEN <<>> ELSE IF Len(parts) = 1 THEN parts[1] ELSE parts[1] \o sep \o Join(Tail(parts), sep)

\* ------------------------------------------------------------- regex
\* regex_flags: TRUE models re.IGNORECASE, FALSE models 0.
MatchAt(regex, value, i, ignorecase) == /\ i + Len(regex) - 1 <= Len(value)
                                        /\ LET piece == SubSeq(value, i, i + Len(regex) - 1)
                                           IN  IF ignorecase THEN Lower(piece) = Lower(regex) ELSE piece = regex

\* re.search(regex, value, flags) is not None
ReSearch(regex, value, ignorecase) == \E i \in 1..Len(value) : MatchAt(regex, value, i, ignorecase)

\* re.search(...).group(0): the text of the leftmost match
ReGroup0(regex, value, ignorecase) == LET i == CHOOSE k \in 1..Len(value) : MatchAt(regex, value, k, ignorecase) /\ \A j \in 1..(k - 1) : ~MatchAt(regex, value, j, ignorecase)
                                      IN  SubSeq(value, i, i + Len(regex) - 1)

\* re.sub(regex, repl, value, flags): every non-overlapping occurrence
RECURSIVE ReSub(_, _, _, _)
ReSub(regex, repl, value, ignorecase) == IF value = <<>> THEN <<>>
                                         ELSE IF MatchAt(regex, value, 1, ignorecase)
                                              THEN repl \o ReSub(regex, repl, SubSeq(value, Len(regex) + 1, Len(value)), ignorecase)
                                              ELSE <<Head(value)>> \o ReSub(regex, repl, Tail(value), ignorecase)

\* --------------------------------------------------------- configuration
\* config["output"].get("rule-match-field", "_rule")
RuleField(config) == IF config.output.rule_match_field = NoneName THEN "_rule" ELSE config.output.rule_match_field

\* config["output"].get("file-processed-field", "_file")
FileField(config) == IF config.output.file_processed_field = NoneName THEN "_file" ELSE config.output.file_processed_field

\* ------------------------------------------------ compute_output_fields
\* The add-fields loop: base_fields gets each new name inserted after its
\* `after` field, added_fields collects (name, default) in config order.
RECURSIVE AddFieldsLoop(_, _, _)
AddFieldsLoop(add_fields, base_fields, added_fields) == IF add_fields = <<>> THEN [base_fields |-> base_fields, added_fields |-> added_fields]
                                                        ELSE LET field == Head(add_fields)
                                                                 insert_index == IF field.after # NoneName /\ InSeq(field.after, base_fields) THEN IndexOf(base_fields, field.after) ELSE Len(base_fields)
                                                             IN  IF InSeq(field.name, base_fields)
                                                                 THEN AddFieldsLoop(Tail(add_fields), base_fields, added_fields)
                                                                 ELSE AddFieldsLoop(Tail(add_fields), InsertAt(base_fields, insert_index, field.name), Append(added_fields, <<field.name, field.default_value>>))

\* for name, default in added_fields: sample_row[name] = default
RECURSIVE SeedDefaults(_, _)
SeedDefaults(sample_row, added_fields) == IF added_fields = <<>> THEN sample_row ELSE SeedDefaults(Put(sample_row, added_fields[1][1], added_fields[1][2]), Tail(added_fields))

\* The provenance fields go in only on the path without an explicit list.
WithProvenance(config, fields) == LET with_rule == IF InSeq(RuleField(config), fields) THEN fields ELSE InsertAt(fields, 0, RuleField(config))
                                  IN  IF InSeq(FileField(config), with_rule) THEN with_rule ELSE InsertAt(with_rule, 1, FileField(config))

\* Lines 23-59 under the bug of provenance fields inserted on both paths.
compute_output_fields_provenance(config, sample_row) == LET loop == AddFieldsLoop(config.add_fields, Keys(sample_row), <<>>)
                                                            seeded == SeedDefaults(sample_row, loop.added_fields)
                                                        IN  WithProvenance(config, IF config.output.fields = <<>> THEN Keys(seeded) ELSE config.output.fields)

\* Lines 23-59: the schema, from the first record of the run.
compute_output_fields(config, sample_row) == LET loop == AddFieldsLoop(config.add_fields, Keys(sample_row), <<>>)
                                                 seeded == SeedDefaults(sample_row, loop.added_fields)
                                             IN  IF config.output.fields = <<>>
                                                 THEN WithProvenance(config, Keys(seeded))
                                                 ELSE config.output.fields

\* ------------------------------------------------ apply_match_assertions
\* One assertion's scan under the bug of a missing break: every matching
\* field adds an entry.
RECURSIVE ScanFieldsNoBreak(_, _, _, _)
ScanFieldsNoBreak(row, fields, regex, ignorecase) == IF fields = <<>> THEN <<>>
                                                     ELSE LET field == Head(fields)
                                                              rest == ScanFieldsNoBreak(row, Tail(fields), regex, ignorecase)
                                                          IN  IF ~Has(row, field) THEN rest
                                                              ELSE IF Get(row, field) = NoneVal \/ rest = Raised THEN Raised
                                                              ELSE IF ReSearch(regex, Get(row, field), ignorecase) THEN <<<<field, ":">> \o ReGroup0(regex, Get(row, field), ignorecase)>> \o rest
                                                              ELSE rest

\* One assertion's scan over its fields: Raised when re.search is handed
\* None, <<entry>> for the first field that matches, <<>> when none does.
RECURSIVE ScanFields(_, _, _, _)
ScanFields(row, fields, regex, ignorecase) == IF fields = <<>> THEN <<>>
                                              ELSE LET field == Head(fields)
                                                   IN  IF ~Has(row, field) THEN ScanFields(row, Tail(fields), regex, ignorecase)
                                                       ELSE IF Get(row, field) = NoneVal THEN Raised
                                                       ELSE IF ReSearch(regex, Get(row, field), ignorecase) THEN <<<<field, ":">> \o ReGroup0(regex, Get(row, field), ignorecase)>>
                                                       ELSE ScanFields(row, Tail(fields), regex, ignorecase)

RECURSIVE MatchSummary(_, _, _)
MatchSummary(row, assertions, ignorecase) == IF assertions = <<>> THEN <<>>
                                             ELSE LET hit == ScanFields(row, Head(assertions).fields, Head(assertions).regex, ignorecase)
                                                      rest == MatchSummary(row, Tail(assertions), ignorecase)
                                                  IN  IF hit = Raised \/ rest = Raised THEN Raised ELSE hit \o rest

\* (matched, match_summary), or raised when a tested value is None
apply_match_assertions(row, rule, ignorecase) == LET match_summary == MatchSummary(row, rule.match, ignorecase)
                                                 IN  IF match_summary = Raised THEN [raised |-> TRUE, matched |-> FALSE, match_summary |-> <<>>]
                                                     ELSE [raised |-> FALSE, matched |-> Len(match_summary) >= Len(rule.match), match_summary |-> match_summary]

\* ----------------------------------------------------- apply_write_truth
\* str.replace under the bug of a placeholder found whatever its case.
RECURSIVE ReplaceTokenAnyCase(_, _, _)
ReplaceTokenAnyCase(value, tok, by) == IF value = <<>> THEN <<>> ELSE (IF LowerTok(Head(value)) = tok THEN by ELSE <<Head(value)>>) \o ReplaceTokenAnyCase(Tail(value), tok, by)

\* str.replace("$match", summary_str)
RECURSIVE ReplaceToken(_, _, _)
ReplaceToken(value, tok, by) == IF value = <<>> THEN <<>> ELSE (IF Head(value) = tok THEN by ELSE <<Head(value)>>) \o ReplaceToken(Tail(value), tok, by)

apply_write_truth(row, rule, match_summary) == IF rule.write_truth = NoWriteTruth THEN row
                                               ELSE LET value == rule.write_truth.value
                                                        written == IF InSeq("$match", Lower(value)) THEN ReplaceToken(value, "$match", Join(match_summary, <<" AND ">>)) ELSE value
                                                    IN  Put(row, rule.write_truth.field, written)

\* ------------------------------------------------------------- state
VARIABLES config, files, computed_fields, writer_fieldnames, output, file_idx, row_idx, pc, row, rule_idx, processed_rows, no_rule_matched, matched_rows, outcome, input_row, schema_computations, failed_files, history

vars == <<config, files, computed_fields, writer_fieldnames, output, file_idx, row_idx, pc, row, rule_idx, processed_rows, no_rule_matched, matched_rows, outcome, input_row, schema_computations, failed_files, history>>

\* config, files: the loaded config.json and the listed input files.
\* computed_fields: config["output"]["computed_fields"], NoneVal while the
\*   key is absent.  writer_fieldnames: writer.fieldnames.
\* output: the lines written so far, each tagged with the file and row it
\*   was derived from.  file_idx, row_idx, rule_idx, pc: the position in the
\*   loops of process_directory, process_csv and process_row.
\* row, processed_rows, no_rule_matched: the locals of process_row;
\*   matched_rows: its return value.
\* outcome, input_row, schema_computations, failed_files, history: history
\*   variables (which return statement was taken, the record as read, how
\*   often compute_output_fields ran, the files whose processing raised,
\*   what each evaluated rule of the current record did and the record as
\*   the rule left it).

\* -------------------------------------------------------- process_row
\* rule.get("name", "no-name")
RuleName(rule) == IF rule.name = NoneName THEN "no-name" ELSE rule.name

\* 0 if rule.get("case-sensitive", False) else re.IGNORECASE
RegexFlags(rule) == ~rule.case_sensitive

\* Lines 94-98 under the bug of a default that is written unconditionally.
RECURSIVE BackfillOverwrites(_, _)
BackfillOverwrites(r, add_fields) == IF add_fields = <<>> THEN r
                                     ELSE BackfillOverwrites(Put(r, Head(add_fields).name, IF Head(add_fields).default_value = NoneVal THEN <<>> ELSE Head(add_fields).default_value), Tail(add_fields))

\* Lines 88-98: seed the rule field, then backfill the add-fields defaults.
RECURSIVE Backfill(_, _)
Backfill(r, add_fields) == IF add_fields = <<>> THEN r
                           ELSE LET field_def == Head(add_fields)
                                    default == IF field_def.default_value = NoneVal THEN <<>> ELSE field_def.default_value
                                IN  Backfill(IF ~Has(r, field_def.name) \/ Get(r, field_def.name) = <<>> THEN Put(r, field_def.name, default) ELSE r, Tail(add_fields))

SeedRuleField(cfg, r, fields) == IF InSeq(RuleField(cfg), fields) /\ ~Has(r, RuleField(cfg)) THEN Put(r, RuleField(cfg), <<>>) ELSE r

RowPrologue(cfg, r, fields) == Backfill(SeedRuleField(cfg, r, fields), cfg.add_fields)

\* The marker ReplaceInRow returns when re.sub is handed None.
RaisedRow == <<<<"<raise>", <<>>>>>>

\* Lines 120-124 for one assertion, under the bug of a substitution that
\* stops at the first listed field the regex is found in.
RECURSIVE ReplaceFieldsFirstOnly(_, _, _, _, _)
ReplaceFieldsFirstOnly(r, fields, regex, repl, ignorecase) == IF fields = <<>> \/ r = RaisedRow THEN r
                                                              ELSE LET field == Head(fields)
                                                                   IN  IF ~Has(r, field) THEN ReplaceFieldsFirstOnly(r, Tail(fields), regex, repl, ignorecase)
                                                                       ELSE IF Get(r, field) = NoneVal THEN RaisedRow
                                                                       ELSE IF ReSearch(regex, Get(r, field), ignorecase) THEN Put(r, field, ReSub(regex, repl, Get(r, field), ignorecase))
                                                                       ELSE ReplaceFieldsFirstOnly(r, Tail(fields), regex, repl, ignorecase)

\* Lines 120-124 for one assertion: re.sub on each listed field in the row.
RECURSIVE ReplaceFields(_, _, _, _, _)
ReplaceFields(r, fields, regex, repl, ignorecase) == IF fields = <<>> \/ r = RaisedRow THEN r
                                                     ELSE LET field == Head(fields)
                                                              next == IF ~Has(r, field) THEN r
                                                                      ELSE IF Get(r, field) = NoneVal THEN RaisedRow
                                                                      ELSE Put(r, field, ReSub(regex, repl, Get(r, field), ignorecase))
                                                          IN  ReplaceFields(next, Tail(fields), regex, repl, ignorecase)

\* Lines 120-124: every assertion of the rule, in order.
RECURSIVE ReplaceInRow(_, _, _, _)
ReplaceInRow(r, assertions, repl, ignorecase) == IF assertions = <<>> \/ r = RaisedRow THEN r
                                                 ELSE ReplaceInRow(ReplaceFields(r, Head(assertions).fields, Head(assertions).regex, repl, ignorecase), Tail(assertions), repl, ignorecase)

\* Lines 135-139 under the bug of a tag that replaces the field's value.
PipeTagOverwrites(cfg, r, fields, rule_name) == IF ~InSeq(RuleField(cfg), fields) THEN r ELSE Put(r, RuleField(cfg), <<rule_name>>)

\* Lines 135-139: append the rule name to the rule field.
PipeTag(cfg, r, fields, rule_name) == IF ~InSeq(RuleField(cfg), fields) THEN r
                                      ELSE IF Get(r, RuleField(cfg)) # <<>> /\ Get(r, RuleField(cfg)) # NoneVal
                                           THEN Put(r, RuleField(cfg), Join(<<Get(r, RuleField(cfg)), <<rule_name>>>>, <<" | ">>))
                                           ELSE Put(r, RuleField(cfg), <<rule_name>>)

\* Lines 128-130: the snapshot a create-row rule appends.
CreateRowCopy(cfg, r, fields, rule, match_summary) == LET row_copy == apply_write_truth(r, rule, match_summary)
                                                      IN  IF InSeq(RuleField(cfg), fields) THEN Put(row_copy, RuleField(cfg), <<RuleName(rule)>>) ELSE row_copy

\* The rule the loop of process_row is at, and its match result.
CurRule == config.rules[rule_idx]

\* Line 107 under the bug of assertions tested on the record as it was
\* before the rule loop.
CurMatchOnInput == apply_match_assertions(RowPrologue(config, input_row, computed_fields), CurRule, RegexFlags(CurRule))

CurMatch == apply_match_assertions(row, CurRule, RegexFlags(CurRule))

AtRule == pc = "rules" /\ rule_idx <= Len(config.rules)

\* A matching rule gets past the log call of line 112 only with a name.
MatchedNamed == AtRule /\ ~CurMatch.raised /\ CurMatch.matched /\ CurRule.name # NoneName

\* ------------------------------------------------------- process_csv
\* The cell csv.writer writes for a value: None is written as "".
CsvCell(v) == IF v = NoneVal THEN <<>> ELSE v

\* Lines 185-186 under the bug of a row written with the record's own fields.
OutputRowOwnFields(cfg, matched_row, fields, fieldnames, base_name) == LET tagged == IF InSeq(FileField(cfg), fields) THEN Put(matched_row, FileField(cfg), <<base_name>>) ELSE matched_row
                                                                       IN  [i \in 1..Len(tagged) |-> CsvCell(tagged[i][2])]

\* Lines 185-186 for one matched row.
OutputRow(cfg, matched_row, fields, fieldnames, base_name) == LET tagged == IF InSeq(FileField(cfg), fields) THEN Put(matched_row, FileField(cfg), <<base_name>>) ELSE matched_row
                                                              IN  [i \in 1..Len(fieldnames) |-> CsvCell(GetOr(tagged, fieldnames[i], <<>>))]

CurFile == files[file_idx]

\* except Exception: log the error; process_directory goes on to the next file.
FileRaises == /\ failed_files' = failed_files \cup {file_idx}
              /\ file_idx' = file_idx + 1
              /\ pc' = "next_file"

\* ------------------------------------------------------------ actions
\* process_directory takes the next file; open() raises on an unreadable one.
OpenFileRaises == /\ pc = "next_file" /\ file_idx <= Len(files)
                  /\ ~CurFile.readable
                  /\ FileRaises
                  /\ UNCHANGED <<config, files, computed_fields, writer_fieldnames, output, row_idx, row, rule_idx, processed_rows, no_rule_matched, matched_rows, outcome, input_row, schema_computations, history>>

\* Lines 163-165: a file without a header row is skipped.
SkipNoHeaders == /\ pc = "next_file" /\ file_idx <= Len(files)
                 /\ CurFile.readable /\ CurFile.fieldnames = <<>>
                 /\ file_idx' = file_idx + 1
                 /\ UNCHANGED <<config, files, computed_fields, writer_fieldnames, output, row_idx, pc, row, rule_idx, processed_rows, no_rule_matched, matched_rows, outcome, input_row, schema_computations, failed_files, history>>

OpenFile == /\ pc = "next_file" /\ file_idx <= Len(files)
            /\ CurFile.readable /\ CurFile.fieldnames # <<>>
            /\ pc' = "rows"
            /\ row_idx' = 0
            /\ UNCHANGED <<config, files, computed_fields, writer_fieldnames, output, file_idx, row, rule_idx, processed_rows, no_rule_matched, matched_rows, outcome, input_row, schema_computations, failed_files, history>>

\* Line 174 negated: "computed_fields" in config["output"], under the bug of
\* a cache that is forgotten at the start of every file.
SchemaCachedPerFile == computed_fields # NoneVal /\ row_idx > 0

\* Line 174 negated, under the bug of a test for a key that is never set.
SchemaCachedNever == computed_fields # NoneVal /\ computed_fields = <<>>

\* Line 174 negated: "computed_fields" in config["output"]
SchemaCached == computed_fields # NoneVal

\* Lines 169-182 and 88-98: the next row of the file; the schema and the
\* header on the first non-empty row of the run; the prologue of process_row.
ReadRow == /\ pc = "rows" /\ row_idx < Len(CurFile.rows)
           /\ row_idx' = row_idx + 1
           /\ LET r == CurFile.rows[row_idx + 1]
                  fields == IF ~SchemaCached THEN compute_output_fields(config, r) ELSE computed_fields
              IN  IF r = <<>>
                  THEN UNCHANGED <<computed_fields, writer_fieldnames, output, pc, row, rule_idx, processed_rows, no_rule_matched, outcome, input_row, schema_computations, history>>
                  ELSE /\ computed_fields' = fields
                       /\ IF ~SchemaCached
                          THEN /\ writer_fieldnames' = fields
                               /\ output' = Append(output, [kind |-> "header", cells |-> fields, file |-> file_idx, row |-> row_idx + 1])
                               /\ schema_computations' = schema_computations + 1
                          ELSE UNCHANGED <<writer_fieldnames, output, schema_computations>>
                       /\ row' = RowPrologue(config, r, fields)
                       /\ input_row' = r
                       /\ processed_rows' = <<>>
                       /\ no_rule_matched' = TRUE
                       /\ rule_idx' = 1
                       /\ history' = <<>>
                       /\ outcome' = "running"
                       /\ pc' = "rules"
           /\ UNCHANGED <<config, files, file_idx, matched_rows, failed_files>>

\* The reader is exhausted: process_csv returns.
EndOfFile == /\ pc = "rows" /\ row_idx = Len(CurFile.rows)
             /\ file_idx' = file_idx + 1
             /\ pc' = "next_file"
             /\ UNCHANGED <<config, files, computed_fields, writer_fieldnames, output, row_idx, row, rule_idx, processed_rows, no_rule_matched, matched_rows, outcome, input_row, schema_computations, failed_files, history>>

\* Line 107 raises (re.search on None) or line 112 raises (rule['name'] of
\* a matching rule without a name): the file is abandoned.
RuleRaises == /\ AtRule
              /\ CurMatch.raised \/ (CurMatch.matched /\ CurRule.name = NoneName)
              /\ FileRaises
              /\ history' = Append(history, <<rule_idx, "raise", row>>)
              /\ outcome' = "raised"
              /\ UNCHANGED <<config, files, computed_fields, writer_fieldnames, output, row_idx, row, rule_idx, processed_rows, no_rule_matched, matched_rows, input_row, schema_computations>>

\* Lines 109-110 under the bug of a write-truth applied before the test of
\* `matched`.
RuleSkippedWritesTruth == /\ AtRule
                          /\ ~CurMatch.raised /\ ~CurMatch.matched
                          /\ row' = apply_write_truth(row, CurRule, CurMatch.match_summary)
                          /\ rule_idx' = rule_idx + 1
                          /\ history' = Append(history, <<rule_idx, "skip", row'>>)
                          /\ UNCHANGED <<config, files, computed_fields, writer_fieldnames, output, file_idx, row_idx, pc, processed_rows, no_rule_matched, matched_rows, outcome, input_row, schema_computations, failed_files>>

\* Lines 109-110: the rule does not match.
RuleSkipped == /\ AtRule
               /\ ~CurMatch.raised /\ ~CurMatch.matched
               /\ rule_idx' = rule_idx + 1
               /\ history' = Append(history, <<rule_idx, "skip", row>>)
               /\ UNCHANGED <<config, files, computed_fields, writer_fieldnames, output, file_idx, row_idx, pc, row, processed_rows, no_rule_matched, matched_rows, outcome, input_row, schema_computations, failed_files>>

\* Lines 115-117 under the bug of a missing return: the loop goes on.
RuleDropRowContinues == /\ MatchedNamed
                        /\ CurRule.action = "drop-row"
                        /\ no_rule_matched' = FALSE
                        /\ rule_idx' = rule_idx + 1
                        /\ history' = Append(history, <<rule_idx, "drop-row", row>>)
                        /\ UNCHANGED <<config, files, computed_fields, writer_fieldnames, output, file_idx, row_idx, pc, row, processed_rows, matched_rows, outcome, input_row, schema_computations, failed_files>>

\* Lines 115-117: return [].
RuleDropRow == /\ MatchedNamed
               /\ CurRule.action = "drop-row"
               /\ no_rule_matched' = FALSE
               /\ matched_rows' = <<>>
               /\ outcome' = "dropped"
               /\ pc' = "returned"
               /\ history' = Append(history, <<rule_idx, "drop-row", row>>)
               /\ UNCHANGED <<config, files, computed_fields, writer_fieldnames, output, file_idx, row_idx, row, rule_idx, processed_rows, input_row, schema_computations, failed_files>>

\* Lines 119-125; re.sub raises on a None value of a listed field.
RuleReplace == /\ MatchedNamed
               /\ CurRule.action = "replace"
               /\ no_rule_matched' = FALSE
               /\ LET replaced == ReplaceInRow(row, CurRule.match, CurRule.replace_by, RegexFlags(CurRule))
                  IN  IF replaced = RaisedRow
                      THEN /\ FileRaises
                           /\ outcome' = "raised"
                           /\ history' = Append(history, <<rule_idx, "raise", row>>)
                           /\ UNCHANGED <<row, rule_idx>>
                      ELSE /\ row' = apply_write_truth(replaced, CurRule, CurMatch.match_summary)
                           /\ rule_idx' = rule_idx + 1
                           /\ history' = Append(history, <<rule_idx, "replace", row'>>)
                           /\ UNCHANGED <<file_idx, pc, outcome, failed_files>>
               /\ UNCHANGED <<config, files, computed_fields, writer_fieldnames, output, row_idx, processed_rows, matched_rows, input_row, schema_computations>>

\* Lines 127-131 under the bug of a snapshot taken of the record as read.
RuleCreateRowFromInput == /\ MatchedNamed
                          /\ CurRule.action = "create-row"
                          /\ no_rule_matched' = FALSE
                          /\ processed_rows' = Append(processed_rows, CreateRowCopy(config, input_row, computed_fields, CurRule, CurMatch.match_summary))
                          /\ rule_idx' = rule_idx + 1
                          /\ history' = Append(history, <<rule_idx, "create-row", row>>)
                          /\ UNCHANGED <<config, files, computed_fields, writer_fieldnames, output, file_idx, row_idx, pc, row, matched_rows, outcome, input_row, schema_computations, failed_files>>

\* Lines 127-131 under the bug of row_copy = row: write-truth and the tag
\* land on the original too.
RuleCreateRowAliases == /\ MatchedNamed
                        /\ CurRule.action = "create-row"
                        /\ no_rule_matched' = FALSE
                        /\ row' = CreateRowCopy(config, row, computed_fields, CurRule, CurMatch.match_summary)
                        /\ processed_rows' = Append(processed_rows, row')
                        /\ rule_idx' = rule_idx + 1
                        /\ history' = Append(history, <<rule_idx, "create-row", row'>>)
                        /\ UNCHANGED <<config, files, computed_fields, writer_fieldnames, output, file_idx, row_idx, pc, matched_rows, outcome, input_row, schema_computations, failed_files>>

\* Lines 127-131.
RuleCreateRow == /\ MatchedNamed
                 /\ CurRule.action = "create-row"
                 /\ no_rule_matched' = FALSE
                 /\ processed_rows' = Append(processed_rows, CreateRowCopy(config, row, computed_fields, CurRule, CurMatch.match_summary))
                 /\ rule_idx' = rule_idx + 1
                 /\ history' = Append(history, <<rule_idx, "create-row", row>>)
                 /\ UNCHANGED <<config, files, computed_fields, writer_fieldnames, output, file_idx, row_idx, pc, row, matched_rows, outcome, input_row, schema_computations, failed_files>>

\* Lines 133-139.
RulePipe == /\ MatchedNamed
            /\ CurRule.action = "pipe"
            /\ no_rule_matched' = FALSE
            /\ row' = PipeTag(config, apply_write_truth(row, CurRule, CurMatch.match_summary), computed_fields, RuleName(CurRule))
            /\ rule_idx' = rule_idx + 1
            /\ history' = Append(history, <<rule_idx, "pipe", row'>>)
            /\ UNCHANGED <<config, files, computed_fields, writer_fieldnames, output, file_idx, row_idx, pc, processed_rows, matched_rows, outcome, input_row, schema_computations, failed_files>>

\* Lines 110-139 under the bug of an unknown action that is no match.
RuleOtherActionUnmatched == /\ MatchedNamed
                            /\ CurRule.action \notin {"drop-row", "replace", "create-row", "pipe"}
                            /\ rule_idx' = rule_idx + 1
                            /\ history' = Append(history, <<rule_idx, "other", row>>)
                            /\ UNCHANGED <<config, files, computed_fields, writer_fieldnames, output, file_idx, row_idx, pc, row, processed_rows, no_rule_matched, matched_rows, outcome, input_row, schema_computations, failed_files>>

\* No branch of the if/elif chain takes any other action string.
RuleOtherAction == /\ MatchedNamed
                   /\ CurRule.action \notin {"drop-row", "replace", "create-row", "pipe"}
                   /\ no_rule_matched' = FALSE
                   /\ rule_idx' = rule_idx + 1
                   /\ history' = Append(history, <<rule_idx, "other", row>>)
                   /\ UNCHANGED <<config, files, computed_fields, writer_fieldnames, output, file_idx, row_idx, pc, row, processed_rows, matched_rows, outcome, input_row, schema_computations, failed_files>>

\* Lines 141-153 under the bug of an ignored drop-unmatched option.
ReturnRowsKeepsUnmatched == /\ pc = "rules" /\ rule_idx > Len(config.rules)
                            /\ IF no_rule_matched
                               THEN matched_rows' = <<row>> /\ outcome' = "unmatched"
                               ELSE IF processed_rows = <<>>
                                    THEN matched_rows' = <<row>> /\ outcome' = "original"
                                    ELSE matched_rows' = processed_rows /\ outcome' = "copies"
                            /\ pc' = "returned"
                            /\ UNCHANGED <<config, files, computed_fields, writer_fieldnames, output, file_idx, row_idx, row, rule_idx, processed_rows, no_rule_matched, input_row, schema_computations, failed_files, history>>

\* Lines 141-153 under the bug of the original returned along with the
\* copies.
ReturnRowsWithOriginal == /\ pc = "rules" /\ rule_idx > Len(config.rules)
                          /\ IF no_rule_matched
                             THEN IF config.output.drop_unmatched
                                  THEN matched_rows' = <<>> /\ outcome' = "unmatched-dropped"
                                  ELSE matched_rows' = <<row>> /\ outcome' = "unmatched"
                             ELSE IF processed_rows = <<>>
                                  THEN matched_rows' = <<row>> /\ outcome' = "original"
                                  ELSE matched_rows' = <<row>> \o processed_rows /\ outcome' = "copies"
                          /\ pc' = "returned"
                          /\ UNCHANGED <<config, files, computed_fields, writer_fieldnames, output, file_idx, row_idx, row, rule_idx, processed_rows, no_rule_matched, input_row, schema_computations, failed_files, history>>

\* Lines 141-153: the rule loop is over; pick what process_row returns.
ReturnRows == /\ pc = "rules" /\ rule_idx > Len(config.rules)
              /\ IF no_rule_matched
                 THEN IF config.output.drop_unmatched
                      THEN matched_rows' = <<>> /\ outcome' = "unmatched-dropped"
                      ELSE matched_rows' = <<row>> /\ outcome' = "unmatched"
                 ELSE IF processed_rows = <<>>
                      THEN matched_rows' = <<row>> /\ outcome' = "original"
                      ELSE matched_rows' = processed_rows /\ outcome' = "copies"
              /\ pc' = "returned"
              /\ UNCHANGED <<config, files, computed_fields, writer_fieldnames, output, file_idx, row_idx, row, rule_idx, processed_rows, no_rule_matched, input_row, schema_computations, failed_files, history>>

\* Lines 184-187 under the bug of rows written ahead of the earlier ones.
WriteRowsPrepends == /\ pc = "returned"
                     /\ output' = [i \in 1..Len(matched_rows) |-> [kind |-> "row", cells |-> OutputRow(config, matched_rows[i], computed_fields, writer_fieldnames, CurFile.name), file |-> file_idx, row |-> row_idx]] \o output
                     /\ pc' = "rows"
                     /\ UNCHANGED <<config, files, computed_fields, writer_fieldnames, file_idx, row_idx, row, rule_idx, processed_rows, no_rule_matched, matched_rows, outcome, input_row, schema_computations, failed_files, history>>

\* Lines 184-187: project every returned row on the schema and write it.
WriteRows == /\ pc = "returned"
             /\ output' = output \o [i \in 1..Len(matched_rows) |-> [kind |-> "row", cells |-> OutputRow(config, matched_rows[i], computed_fields, writer_fieldnames, CurFile.name), file |-> file_idx, row |-> row_idx]]
             /\ pc' = "rows"
             /\ UNCHANGED <<config, files, computed_fields, writer_fieldnames, file_idx, row_idx, row, rule_idx, processed_rows, no_rule_matched, matched_rows, outcome, input_row, schema_computations, failed_files, history>>

\* process_directory has no file left: main leaves the with block.
Finish == /\ pc = "next_file" /\ file_idx > Len(files)
          /\ pc' = "done"
          /\ UNCHANGED <<config, files, computed_fields, writer_fieldnames, output, file_idx, row_idx, row, rule_idx, processed_rows, no_rule_matched, matched_rows, outcome, input_row, schema_computations, failed_files, history>>

Next == \/ OpenFileRaises
        \/ SkipNoHeaders
        \/ OpenFile
        \/ ReadRow
        \/ EndOfFile
        \/ RuleRaises
        \/ RuleSkipped
        \/ RuleDropRow
        \/ RuleReplace
        \/ RuleCreateRow
        \/ RulePipe
        \/ RuleOtherAction
        \/ ReturnRows
        \/ WriteRows
        \/ Finish

\* ------------------------------------------------------- initial states
SeqsUpTo(S, n) == UNION {[1..k -> S] : k \in 0..n}

\* A DictReader row: the header zipped with the cells of the line.
MkRow(fieldnames, cells) == [i \in 1..Len(fieldnames) |-> <<fieldnames[i], cells[i]>>]

Assertion(fields, regex) == [fields |-> fields, regex |-> regex]

\* The rules a config draws from: one per action, with and without
\* write-truth, case-sensitive and not, with zero, one and two assertions.
DropRule == [name |-> "d", action |-> "drop-row", case_sensitive |-> FALSE, match |-> <<Assertion(<<"msg">>, <<"b">>)>>, replace_by |-> <<>>, write_truth |-> NoWriteTruth]

ReplaceRule == [name |-> "r", action |-> "replace", case_sensitive |-> TRUE, match |-> <<Assertion(<<"msg", "id">>, <<"a">>)>>, replace_by |-> <<"b">>, write_truth |-> [field |-> "truth", value |-> <<"$match">>]]

CreateRule == [name |-> "c", action |-> "create-row", case_sensitive |-> FALSE, match |-> <<Assertion(<<"id", "msg">>, <<"b">>)>>, replace_by |-> <<>>, write_truth |-> [field |-> "truth", value |-> <<"b", "$match">>]]

PipeRule == [name |-> "p", action |-> "pipe", case_sensitive |-> FALSE, match |-> <<>>, replace_by |-> <<>>, write_truth |-> NoWriteTruth]

PipeTwoRule == [name |-> "q", action |-> "pipe", case_sensitive |-> FALSE, match |-> <<Assertion(<<"msg">>, <<"a", "b">>), Assertion(<<"zz", "id", "msg">>, <<"a">>)>>, replace_by |-> <<>>, write_truth |-> [field |-> "truth", value |-> <<"$MATCH", "$match">>]]

PipeTruthRule == [name |-> "w", action |-> "pipe", case_sensitive |-> TRUE, match |-> <<Assertion(<<"id">>, <<"a">>)>>, replace_by |-> <<>>, write_truth |-> [field |-> "_rule", value |-> <<"b">>]]

OtherRule == [name |-> "o", action |-> "tag", case_sensitive |-> FALSE, match |-> <<Assertion(<<"id", "truth">>, <<"a">>)>>, replace_by |-> <<>>, write_truth |-> NoWriteTruth]

NamelessRule == [name |-> NoneName, action |-> "pipe", case_sensitive |-> TRUE, match |-> <<Assertion(<<"id">>, <<"A">>)>>, replace_by |-> <<>>, write_truth |-> NoWriteTruth]

RulePool == {DropRule, ReplaceRule, CreateRule, PipeRule, PipeTwoRule, PipeTruthRule, OtherRule}

StatusField == [name |-> "status", after |-> "id", default_value |-> <<"n">>]

Output(fields, drop_unmatched) == [fields |-> fields, rule_match_field |-> NoneName, file_processed_field |-> NoneName, drop_unmatched |-> drop_unmatched]

\* add-fields and output sections: the schema derived or explicit, with and
\* without the provenance fields, unmatched rows kept or dropped.
DerivedKeep == [add_fields |-> <<StatusField>>, output |-> Output(<<>>, FALSE)]

DerivedDrop == [add_fields |-> <<>>, output |-> Output(<<>>, TRUE)]

ExplicitKeep == [add_fields |-> <<>>, output |-> Output(<<"msg", "truth", "id">>, FALSE)]

ExplicitDrop == [add_fields |-> <<StatusField>>, output |-> Output(<<"_rule", "status", "msg">>, TRUE)]

MkConfig(o, rules) == [add_fields |-> o.add_fields, rules |-> rules, output |-> o.output]

MkFile(i, readable, fieldnames, rows) == [name |-> <<"f1.csv", "f2.csv", "f3.csv", "f4.csv">>[i], readable |-> readable, fieldnames |-> fieldnames, rows |-> rows]

\* Records for the rule engine: repeated and mixed-case matches, a short
\* row (None), an empty cell, an input that brings its own rule column.
RepeatRow == MkRow(<<"id", "msg">>, <<<<"a">>, <<"a", "b", "a">>>>)

MixedCaseRow == MkRow(<<"id", "msg">>, <<<<"b">>, <<"A", "b">>>>)

ShortRow == MkRow(<<"id", "msg">>, <<<<"A">>, NoneVal>>)

TaggedRow == MkRow(<<"msg", "status", "_rule">>, <<<<"a">>, <<>>, <<"b">>>>)

\* The output section and the record of each single-record run.
RowCases == {<<DerivedKeep, RepeatRow>>, <<DerivedKeep, MixedCaseRow>>, <<DerivedDrop, ShortRow>>, <<DerivedDrop, TaggedRow>>, <<ExplicitKeep, RepeatRow>>, <<ExplicitDrop, TaggedRow>>}

\* One file of one record, every rule list up to MaxRules.
RowInits == {[config |-> MkConfig(c[1], rules), files |-> <<MkFile(1, TRUE, Keys(c[2]), <<c[2]>>)>>] : c \in RowCases, rules \in SeqsUpTo(RulePool, MaxRules)}

\* File contents for whole runs: two records; a short row between two good
\* ones; another header, with a field the first lacks; a header and no
\* record; no header; an unreadable file.
ContentPool == {[readable |-> TRUE, fieldnames |-> <<"id", "msg">>, rows |-> <<MkRow(<<"id", "msg">>, <<<<"a">>, <<"b">>>>), MkRow(<<"id", "msg">>, <<<<"A">>, <<"A", "b">>>>)>>],
                [readable |-> TRUE, fieldnames |-> <<"id", "msg">>, rows |-> <<MkRow(<<"id", "msg">>, <<<<"a">>, <<"b">>>>), MkRow(<<"id", "msg">>, <<<<"b">>, NoneVal>>), MkRow(<<"id", "msg">>, <<<<"a">>, <<"b">>>>)>>],
                [readable |-> TRUE, fieldnames |-> <<"msg", "status">>, rows |-> <<MkRow(<<"msg", "status">>, <<<<"A", "b">>, <<"b">>>>)>>],
                [readable |-> TRUE, fieldnames |-> <<"id", "msg">>, rows |-> <<>>],
                [readable |-> TRUE, fieldnames |-> <<>>, rows |-> <<>>],
                [readable |-> FALSE, fieldnames |-> <<>>, rows |-> <<>>]}

RunConfigs == {MkConfig(DerivedKeep, <<CreateRule, ReplaceRule, CreateRule>>), MkConfig(ExplicitKeep, <<CreateRule, ReplaceRule, CreateRule>>), MkConfig(ExplicitDrop, <<NamelessRule, DropRule>>), MkConfig(DerivedDrop, <<>>)}

\* Whole runs: every listing of up to MaxFiles files.
RunInits == {[config |-> c, files |-> [i \in 1..Len(contents) |-> MkFile(i, contents[i].readable, contents[i].fieldnames, contents[i].rows)]] : c \in RunConfigs, contents \in SeqsUpTo(ContentPool, MaxFiles)}

Init == /\ \E i \in RowInits \cup RunInits : config = i.config /\ files = i.files
        /\ computed_fields = NoneVal
        /\ writer_fieldnames = <<>>
        /\ output = <<>>
        /\ file_idx = 1
        /\ row_idx = 0
        /\ pc = "next_file"
        /\ row = <<>>
        /\ rule_idx = 1
        /\ processed_rows = <<>>
        /\ no_rule_matched = TRUE
        /\ matched_rows = <<>>
        /\ outcome = "idle"
        /\ input_row = <<>>
        /\ schema_computations = 0
        /\ failed_files = {}
        /\ history = <<>>

Spec == Init /\ [][Next]_vars

\* ---------------------------------------------------------- properties
\* The output lines derived from row r of file f.
RowsFrom(f, r) == {i \in 1..Len(output) : output[i].kind = "row" /\ output[i].file = f /\ output[i].row = r}

\* The current record's rule pass has ended with a return of process_row.
Returned == pc = "returned" \/ (pc = "rows" /\ row_idx > 0 /\ outcome \notin {"idle", "raised"})

\* C1: once a drop-row rule i has matched the record as the earlier rules
\* left it, process_row returns the empty list, rule i is the last rule
\* evaluated, and nothing is written for the record, the create-row copies
\* of earlier rules included.
C1_DropRowShortCircuit == \A k \in 1..Len(history) : history[k][2] = "drop-row" =>
                              /\ k = Len(history) /\ k = rule_idx
                              /\ pc # "rules"
                              /\ outcome = "dropped"
                              /\ matched_rows = <<>>
                              /\ apply_match_assertions(row, config.rules[k], RegexFlags(config.rules[k])).matched
                              /\ pc \in {"returned", "rows"} => RowsFrom(file_idx, row_idx) = {}

\* A record dropped by a rule that has rules after it and copies before it,
\* after the write loop has run.
C1_Witness == /\ outcome = "dropped" /\ pc = "rows"
              /\ processed_rows # <<>>
              /\ rule_idx < Len(config.rules)
              /\ history[rule_idx][2] = "drop-row"

\* Whether k names an add-fields entry, and that entry's default.
IsAddField(k) == \E i \in 1..Len(config.add_fields) : config.add_fields[i].name = k

DefaultOf(k) == LET d == config.add_fields[CHOOSE i \in 1..Len(config.add_fields) : config.add_fields[i].name = k].default_value
                IN  IF d = NoneVal THEN <<>> ELSE d

\* No rule matched the current record and process_row has returned.
NoMatchReturned == Returned /\ no_rule_matched /\ outcome # "dropped"

\* C2 as stated: a record no rule matches comes back as [R], changed by
\* the add-fields backfill only, or as [] under drop-unmatched.
C2_Original == NoMatchReturned =>
                   IF config.output.drop_unmatched THEN matched_rows = <<>>
                   ELSE matched_rows = <<Backfill(input_row, config.add_fields)>>

\* C2 amended: as stated, except that the returned record also carries the
\* rule field, with an empty value (or its add-fields default), when that
\* field is in the output schema and the input record lacks it.
C2_UnmatchedPassThrough == NoMatchReturned =>
                               IF config.output.drop_unmatched THEN matched_rows = <<>>
                               ELSE /\ Len(matched_rows) = 1
                                    /\ \A i \in 1..Len(input_row) : LET k == input_row[i][1] IN
                                           /\ Has(matched_rows[1], k)
                                           /\ Get(matched_rows[1], k) = IF IsAddField(k) /\ input_row[i][2] = <<>> THEN DefaultOf(k) ELSE input_row[i][2]
                                    /\ \A i \in 1..Len(matched_rows[1]) : LET k == matched_rows[1][i][1] IN
                                           \/ Has(input_row, k)
                                           \/ IsAddField(k) /\ matched_rows[1][i][2] = DefaultOf(k)
                                           \/ k = RuleField(config) /\ InSeq(k, computed_fields) /\ matched_rows[1][i][2] = <<>>

\* A record that every rule of a non-empty list skipped, returned with a
\* backfilled default and a seeded rule field.
C2_Witness == /\ NoMatchReturned /\ ~config.output.drop_unmatched
              /\ Len(config.rules) > 0
              /\ Has(matched_rows[1], "status") /\ ~Has(input_row, "status")
              /\ Has(matched_rows[1], "_rule") /\ ~Has(input_row, "_rule")

\* The header lines written so far.
Headers == {i \in 1..Len(output) : output[i].kind = "header"}

\* The record the schema was computed from is the first one of the run.
FirstRecord(f, r) == r = 1 /\ \A g \in 1..(f - 1) : ~files[g].readable \/ files[g].rows = <<>>

\* C3: the schema is computed once, from the first record of the run, and
\* the cached list, the writer's field names and the header never change
\* afterwards, whatever fields later records and files bring.
C3_SchemaFreeze == /\ [](/\ schema_computations <= 1
                         /\ (computed_fields # NoneVal) <=> (schema_computations = 1)
                         /\ Cardinality(Headers) = schema_computations
                         /\ computed_fields # NoneVal =>
                                /\ writer_fieldnames = computed_fields
                                /\ \A i \in Headers : /\ output[i].cells = computed_fields
                                                       /\ FirstRecord(output[i].file, output[i].row)
                                                       /\ computed_fields = compute_output_fields(config, files[output[i].file].rows[1])
                         /\ \A i \in 1..Len(output) : output[i].kind = "row" => Len(output[i].cells) = Len(computed_fields))
                   /\ [][computed_fields # NoneVal => computed_fields' = computed_fields /\ writer_fieldnames' = writer_fieldnames]_vars

\* A row written from a later file whose record has a field the frozen
\* schema lacks.
C3_Witness == /\ computed_fields # NoneVal /\ file_idx > 1 /\ pc = "rows"
              /\ RowsFrom(file_idx, row_idx) # {}
              /\ \E i \in 1..Len(input_row) : ~InSeq(input_row[i][1], computed_fields)
              /\ \E i \in Headers : output[i].file < file_idx

\* The record as rule k of the current pass found it.
RowBefore(k) == IF k = 1 THEN RowPrologue(config, input_row, computed_fields) ELSE history[k - 1][3]

\* What the replace loop makes of value v of field f: one re.sub per
\* assertion that lists f, once per listing, in order.
RECURSIVE SubListed(_, _, _, _, _)
SubListed(fields, f, regex, v, rule) == IF fields = <<>> THEN v
                                        ELSE SubListed(Tail(fields), f, regex, IF Head(fields) = f THEN ReSub(regex, rule.replace_by, v, RegexFlags(rule)) ELSE v, rule)

RECURSIVE SubAll(_, _, _, _)
SubAll(assertions, f, v, rule) == IF assertions = <<>> THEN v
                                  ELSE SubAll(Tail(assertions), f, SubListed(Head(assertions).fields, f, Head(assertions).regex, v, rule), rule)

\* Rule a is a matching replace rule and rule b a later matching
\* create-row rule of the current record's pass.
ReplaceThenCreate(a, b) == /\ a < b /\ b <= Len(history)
                           /\ history[a][2] = "replace" /\ history[b][2] = "create-row"

\* The copy rule b produced: its position among the copies is the number
\* of create-row rules up to b.
CopyOf(b) == processed_rows[Cardinality({k \in 1..b : history[k][2] = "create-row"})]

\* The copies carry the substitutions of replace rule a in every field that
\* no rule after a has written.
ReflectsReplace(a, b) == \A i \in 1..Len(RowBefore(a)) : LET f == RowBefore(a)[i][1] IN
                             /\ f # config.rules[a].write_truth.field => Get(history[a][3], f) = SubAll(config.rules[a].match, f, RowBefore(a)[i][2], config.rules[a])
                             /\ (/\ \A k \in (a + 1)..(b - 1) : Get(history[k][3], f) = Get(RowBefore(k), f)
                                 /\ f # config.rules[b].write_truth.field
                                 /\ f # RuleField(config)) => Get(CopyOf(b), f) = Get(history[a][3], f)

\* C4 as stated: when a replace rule and a later create-row rule both match,
\* process_row returns the create-row copies, which carry the replace
\* rule's substitutions, and not the mutated original.
C4_Original == \A a, b \in 1..Len(history) : ReplaceThenCreate(a, b) /\ Returned =>
                   /\ outcome = "copies"
                   /\ matched_rows = processed_rows
                   /\ ReflectsReplace(a, b)

\* C4 amended: the same, unless a drop-row rule after the create-row rule
\* matches, in which case nothing is returned.
C4_CreateRowPrecedence == \A a, b \in 1..Len(history) : ReplaceThenCreate(a, b) /\ Returned =>
                              IF history[Len(history)][2] = "drop-row" THEN matched_rows = <<>>
                              ELSE /\ outcome = "copies"
                                   /\ matched_rows = processed_rows
                                   /\ \E j \in 1..Len(matched_rows) : matched_rows[j] = CopyOf(b)
                                   /\ ReflectsReplace(a, b)

\* A replace rule that changed the record, then a create-row rule, and the
\* copy written to the output.
C4_Witness == /\ pc = "rows" /\ outcome = "copies"
              /\ \E a, b \in 1..Len(history) : /\ ReplaceThenCreate(a, b)
                                               /\ history[a][3] # RowBefore(a)
                                               /\ Get(CopyOf(b), "msg") # Get(input_row, "msg")
              /\ RowsFrom(file_idx, row_idx) # {}

\* The names of the pipe rules among the first n evaluated rules, each as a
\* string, in evaluation order.
RECURSIVE PipeNames(_)
PipeNames(n) == IF n = 0 THEN <<>>
                ELSE IF history[n][2] = "pipe" THEN Append(PipeNames(n - 1), <<RuleName(config.rules[n])>>) ELSE PipeNames(n - 1)

\* The rule field is in the schema, the record came in without a value for
\* it, the pass is over, and every rule that matched was a pipe rule.
OnlyPipesMatched == /\ Returned /\ ~no_rule_matched
                    /\ InSeq(RuleField(config), computed_fields)
                    /\ GetOr(input_row, RuleField(config), <<>>) = <<>>
                    /\ ~IsAddField(RuleField(config))
                    /\ \A k \in 1..Len(history) : history[k][2] \in {"pipe", "skip"}

NoLongerMatches(rule, r) == \A i \in 1..Len(rule.match) : \A j \in 1..Len(rule.match[i].fields) :
                                LET f == rule.match[i].fields[j]
                                IN  Has(r, f) => Get(r, f) # NoneVal /\ ~ReSearch(rule.match[i].regex, Get(r, f), RegexFlags(rule))

\* Rule k is a replace rule that matched, rule k+1 is the same rule again,
\* and after the first application its regex finds nothing any more.
ReplaceAppliedTwice(k) == /\ k < Len(history)
                          /\ config.rules[k].action = "replace" /\ config.rules[k + 1] = config.rules[k]
                          /\ history[k][2] = "replace"
                          /\ NoLongerMatches(config.rules[k], history[k][3])

\* C6: a replace rule whose regex no longer matches after its first
\* application leaves every field as it is when it is applied again.
C6_ReplaceIdempotent == \A k \in 1..Len(history) : ReplaceAppliedTwice(k) =>
                            /\ history[k + 1][3] = history[k][3]
                            /\ history[k + 1][2] # "raise"

\* The first application changed the record and wrote its truth field, the
\* second one has been evaluated.
C6_Witness == \E k \in 1..Len(history) : /\ ReplaceAppliedTwice(k)
                                         /\ Get(history[k][3], "msg") # Get(RowBefore(k), "msg")
                                         /\ Has(history[k][3], "truth")

\* The first record of the run, the one the schema was computed from.
SampleRow == files[output[CHOOSE i \in Headers : TRUE].file].rows[1]

\* C7: without an explicit output.fields list, every add-fields name the
\* sample record lacks sits right after its `after` field in the schema, or
\* last when `after` is absent or unknown; {id, msg} with status after id
\* gives _rule, _file, id, status, msg.
C7_AddFieldPlacement == computed_fields # NoneVal /\ config.output.fields = <<>> =>
                            /\ \A i \in 1..Len(config.add_fields) : LET f == config.add_fields[i] IN
                                   ~Has(SampleRow, f.name) =>
                                       /\ InSeq(f.name, computed_fields)
                                       /\ IF f.after # NoneName /\ Has(SampleRow, f.after)
                                          THEN IndexOf(computed_fields, f.name) = IndexOf(computed_fields, f.after) + 1
                                          ELSE computed_fields[Len(computed_fields)] = f.name
                            /\ Keys(SampleRow) = <<"id", "msg">> /\ config.add_fields = <<StatusField>> => computed_fields = <<"_rule", "_file", "id", "status", "msg">>

\* Assertion i of the rule is satisfied by listed field j of record r.
FieldMatches(rule, r, i, j) == LET f == rule.match[i].fields[j]
                               IN  Has(r, f) /\ Get(r, f) # NoneVal /\ ReSearch(rule.match[i].regex, Get(r, f), RegexFlags(rule))

\* The assertions of the rule that some listed field of r satisfies.
SatisfiedIn(rule, r) == {i \in 1..Len(rule.match) : \E j \in 1..Len(rule.match[i].fields) : FieldMatches(rule, r, i, j)}

\* The summary entry of a satisfied assertion: its first matching field and
\* the text matched there.
EntryOf(rule, r, i) == LET j == CHOOSE n \in 1..Len(rule.match[i].fields) : FieldMatches(rule, r, i, n) /\ \A m \in 1..(n - 1) : ~FieldMatches(rule, r, i, m)
                           f == rule.match[i].fields[j]
                       IN  <<f, ":">> \o ReGroup0(rule.match[i].regex, Get(r, f), RegexFlags(rule))

\* The evaluation reaches a None value: a listed field holds None and no
\* field listed before it in the same assertion matches.
TestsNone(rule, r) == \E i \in 1..Len(rule.match) : \E j \in 1..Len(rule.match[i].fields) :
                          /\ Has(r, rule.match[i].fields[j]) /\ Get(r, rule.match[i].fields[j]) = NoneVal
                          /\ \A m \in 1..(j - 1) : ~FieldMatches(rule, r, i, m)

\* C8: for every rule evaluated in the current pass, matched holds exactly
\* when every assertion is satisfied by a listed field present in the
\* record, the summary has one field:text entry per satisfied assertion, in
\* assertion order, for the first listed field that matches, fields listed
\* after it are not tested, and a rule without assertions matches with an
\* empty summary.
C8_MatchAssertions == \A k \in 1..Len(history) :
                          LET rule == config.rules[k]
                              r == RowBefore(k)
                              m == apply_match_assertions(r, rule, RegexFlags(rule))
                              sat == SatisfiedIn(rule, r)
                          IN  /\ m.raised <=> TestsNone(rule, r)
                              /\ ~m.raised =>
                                     /\ m.matched <=> (sat = 1..Len(rule.match))
                                     /\ Len(m.match_summary) = Cardinality(sat)
                                     /\ \A i \in sat : m.match_summary[Cardinality({n \in sat : n <= i})] = EntryOf(rule, r, i)
                                     /\ rule.match = <<>> => m.matched /\ m.match_summary = <<>>
                                     /\ history[k][2] = "skip" <=> ~m.matched
                              /\ m.raised => history[k][2] = "raise"

\* A rule of two assertions matched through the second and the third
\* listed field, one without assertions matched, one was satisfied in one
\* assertion of two only.
C8_Witness == /\ \E k \in 1..Len(history) : /\ Len(config.rules[k].match) = 2 /\ history[k][2] = "pipe"
                                            /\ apply_match_assertions(RowBefore(k), config.rules[k], RegexFlags(config.rules[k])).match_summary = <<<<"msg", ":", "A", "b">>, <<"msg", ":", "A">>>>
              /\ \E k \in 1..Len(history) : config.rules[k].match = <<>> /\ history[k][2] = "pipe"

\* C9: an error at any row of a file does not end the run, which goes on
\* with the next file, and the output holds no row derived from a file
\* whose processing raised.
C9_FailedFileSkipped == /\ \A f \in failed_files : file_idx > f
                        /\ \A f \in failed_files : \A i \in 1..Len(output) : output[i].kind = "row" => output[i].file # f

\* The output lines of the current record, in the order written.
CurrentLines == [j \in 1..Cardinality(RowsFrom(file_idx, row_idx)) |-> output[Len(output) - Cardinality(RowsFrom(file_idx, row_idx)) + j]]

\* C10: every written row has one cell per field of the frozen schema, in
\* schema order; the cell of a field the emitted record lacks is the empty
\* string, and fields of the record outside the schema leave no cell.
C10_RowsFollowSchema == /\ \A i \in 1..Len(output) : output[i].kind = "row" => Len(output[i].cells) = Len(computed_fields)
                        /\ pc = "rows" /\ row_idx > 0 /\ outcome \notin {"idle", "raised"} =>
                               /\ Len(CurrentLines) = Len(matched_rows)
                               /\ \A j \in 1..Len(matched_rows) : \A n \in 1..Len(computed_fields) :
                                      LET f == computed_fields[n]
                                          cell == CurrentLines[j].cells[n]
                                      IN  IF f = FileField(config) THEN cell = <<CurFile.name>>
                                          ELSE IF ~Has(matched_rows[j], f) THEN cell = <<>>
                                          ELSE IF Get(matched_rows[j], f) = NoneVal THEN cell = <<>>
                                          ELSE cell = Get(matched_rows[j], f)

\* A written record that lacks a schema field and has a field the schema
\* lacks, under a schema that is not the record's own field list.
C10_Witness == /\ pc = "rows" /\ row_idx > 0 /\ outcome = "copies" /\ Len(matched_rows) = 2
               /\ \E n \in 1..Len(computed_fields) : ~Has(matched_rows[1], computed_fields[n])
               /\ \E n \in 1..Len(matched_rows[1]) : ~InSeq(matched_rows[1][n][1], computed_fields)
               /\ Len(CurrentLines) = 2

\* C11: the header is written at most once, it is the first line of the
\* output, and so no data row comes before it and no later file adds a
\* second one.
C11_SingleHeaderFirst == /\ Cardinality(Headers) <= 1
                         /\ output # <<>> => output[1].kind = "header"
                         /\ \A i \in 2..Len(output) : output[i].kind = "row"

\* Rows of two files under the one header.
C11_Witness == /\ Len(output) >= 3 /\ output[1].kind = "header"
               /\ \E i, j \in 2..Len(output) : output[i].file < output[j].file
               /\ pc = "done"

\* What rule k does when evaluated on record r: the branch process_row
\* takes.
BranchOn(k, r) == LET rule == config.rules[k]
                      m == apply_match_assertions(r, rule, RegexFlags(rule))
                  IN  IF m.raised THEN "raise"
                      ELSE IF ~m.matched THEN "skip"
                      ELSE IF rule.name = NoneName THEN "raise"
                      ELSE IF rule.action = "replace" /\ ReplaceInRow(r, rule.match, rule.replace_by, RegexFlags(rule)) = RaisedRow THEN "raise"
                      ELSE IF rule.action \in {"drop-row", "replace", "create-row", "pipe"} THEN rule.action
                      ELSE "other"

\* C12: the rules of a pass are evaluated in declared order, and what rule
\* j does is decided by its assertions on the record as the matching
\* replace and pipe rules before it left it, write-truth fields included.
C12_RulesSeeMutations == /\ \A k \in 1..Len(history) : history[k][1] = k /\ history[k][2] = BranchOn(k, RowBefore(k))
                         /\ pc = "rules" => rule_idx = Len(history) + 1 /\ row = RowBefore(rule_idx)

\* A rule that matches only through the truth field an earlier pipe rule
\* wrote, and a rule that no longer matches after an earlier replace.
C12_Witness == \E j \in 2..Len(history) : /\ history[j][2] = "other"
                                          /\ BranchOn(j, RowBefore(1)) = "skip"
                                          /\ history[j - 1][2] = "pipe"
                                          /\ ~Has(RowBefore(1), "truth") /\ Has(RowBefore(j), "truth")

\* The match summary of rule k on the record as the rule found it.
SummaryAt(k) == apply_match_assertions(RowBefore(k), config.rules[k], RegexFlags(config.rules[k])).match_summary

\* The create-row rules among the first n evaluated rules.
CreatesUpTo(n) == {k \in 1..n : history[k][2] = "create-row"}

\* C13: a matching create-row rule leaves the original record as it was,
\* and each copy stays the snapshot taken when its rule matched, with that
\* rule's write-truth and tag, whatever later rules do to the original.
C13_CopyOnBranch == /\ Len(processed_rows) = Cardinality(CreatesUpTo(Len(history)))
                    /\ \A b \in CreatesUpTo(Len(history)) :
                           /\ history[b][3] = RowBefore(b)
                           /\ CopyOf(b) = CreateRowCopy(config, RowBefore(b), computed_fields, config.rules[b], SummaryAt(b))

\* A copy that differs from the original by its truth field and tag, and a
\* later replace rule that changed the original and not the copy.
C13_Witness == \E b \in CreatesUpTo(Len(history)) : \E k \in (b + 1)..Len(history) :
                   /\ history[k][2] = "replace"
                   /\ Get(history[k][3], "msg") # Get(RowBefore(b), "msg")
                   /\ Get(CopyOf(b), "msg") = Get(RowBefore(b), "msg")
                   /\ Has(CopyOf(b), "truth") /\ ~Has(history[b][3], "truth")

\* The record matched a rule and no drop-row rule ended its pass.
MatchedNotDropped == Returned /\ ~no_rule_matched /\ outcome # "dropped"

\* The n-th smallest element of a set of numbers.
Nth(S, n) == CHOOSE k \in S : Cardinality({j \in S : j <= k}) = n

\* C14: a record that matched a rule and was not dropped comes back as the
\* one original, as the rules left it, when no create-row rule matched, and
\* otherwise as one copy per matching create-row rule, in rule order, and
\* nothing else.
C14_ReturnedRows == MatchedNotDropped =>
                        IF CreatesUpTo(Len(history)) = {}
                        THEN matched_rows = <<history[Len(history)][3]>> /\ matched_rows = <<row>>
                        ELSE /\ Len(matched_rows) = Cardinality(CreatesUpTo(Len(history)))
                             /\ \A n \in 1..Len(matched_rows) : LET b == Nth(CreatesUpTo(Len(history)), n) IN
                                    matched_rows[n] = CreateRowCopy(config, RowBefore(b), computed_fields, config.rules[b], SummaryAt(b))

\* Two copies of different content returned for one record whose original
\* was changed by a rule between them.
C14_Witness == /\ MatchedNotDropped /\ Len(matched_rows) = 2
               /\ matched_rows[1] # matched_rows[2]
               /\ \E k \in 1..Len(history) : history[k][2] = "replace"
               /\ \A n \in 1..2 : matched_rows[n] # row

\* The value apply_write_truth writes for rule k: the template with every
\* $match token replaced by the summary entries joined by " AND ".
TruthOf(k) == LET value == config.rules[k].write_truth.value
                  joined == Join(SummaryAt(k), <<" AND ">>)
              IN  Join([i \in 1..Len(value) |-> IF value[i] = "$match" THEN joined ELSE <<value[i]>>], <<>>)

\* C15: a matching replace rule substitutes every occurrence in every field
\* its assertions list that the record has, the field that satisfied the
\* match or not; every other field stays, but for the write-truth target.
C15_ReplaceAllListed == \A k \in 1..Len(history) : history[k][2] = "replace" =>
                            /\ \A i \in 1..Len(RowBefore(k)) : LET f == RowBefore(k)[i][1] IN
                                   Get(history[k][3], f) = IF f = config.rules[k].write_truth.field THEN TruthOf(k)
                                                           ELSE SubAll(config.rules[k].match, f, RowBefore(k)[i][2], config.rules[k])
                            /\ \A i \in 1..Len(history[k][3]) : Has(RowBefore(k), history[k][3][i][1]) \/ history[k][3][i][1] = config.rules[k].write_truth.field

\* The rule matched in msg; msg lost all its occurrences and id, listed
\* after it, was substituted as well.
C15_Witness == \E k \in 1..Len(history) : /\ history[k][2] = "replace"
                                          /\ SummaryAt(k) = <<<<"msg", ":", "a">>>>
                                          /\ Get(RowBefore(k), "msg") = <<"a", "b", "a">> /\ Get(history[k][3], "msg") = <<"b", "b", "b">>
                                          /\ Get(RowBefore(k), "id") = <<"a">> /\ Get(history[k][3], "id") = <<"b">>

\* Rule k matched and its action runs apply_write_truth.
WritesTruth(k) == history[k][2] \in {"replace", "pipe", "create-row"}

\* C16: apply_write_truth returns the record as it is for a rule without
\* write-truth; otherwise the target field, present before or not, holds
\* the template with $match replaced by the entries joined by " AND ", and
\* every other field is as before.  The record a pipe rule leaves differs
\* from that in the rule field only.
C16_WriteTruth == \A k \in 1..Len(history) : WritesTruth(k) =>
                      LET rule == config.rules[k]
                          before == IF rule.action = "replace" THEN ReplaceInRow(RowBefore(k), rule.match, rule.replace_by, RegexFlags(rule)) ELSE RowBefore(k)
                          after == apply_write_truth(before, rule, SummaryAt(k))
                      IN  /\ rule.write_truth = NoWriteTruth => after = before
                          /\ rule.write_truth # NoWriteTruth =>
                                 /\ Has(after, rule.write_truth.field) /\ Get(after, rule.write_truth.field) = TruthOf(k)
                                 /\ \A i \in 1..Len(before) : before[i][1] # rule.write_truth.field => Has(after, before[i][1]) /\ Get(after, before[i][1]) = before[i][2]
                                 /\ \A i \in 1..Len(after) : Has(before, after[i][1]) \/ after[i][1] = rule.write_truth.field
                          /\ rule.action = "replace" => history[k][3] = after
                          /\ rule.action = "pipe" => \A i \in 1..Len(after) : after[i][1] # RuleField(config) => Get(history[k][3], after[i][1]) = after[i][2]
                          /\ rule.action = "create-row" => \A i \in 1..Len(after) : after[i][1] # RuleField(config) => Get(CopyOf(k), after[i][1]) = after[i][2]

\* A two-entry summary written behind an upper-case $MATCH that stays, and
\* a later rule's write-truth over that value.
C16_Witness == \E j, k \in 1..Len(history) : /\ j < k /\ WritesTruth(j) /\ WritesTruth(k)
                                             /\ Has(history[j][3], "truth")
                                             /\ Get(history[j][3], "truth") = <<"$MATCH", "msg", ":", "a", "b", " AND ", "id", ":", "a">>
                                             /\ Get(history[k][3], "truth") = <<"msg", ":", "a">>

\* The rule loop of the current record is about to evaluate its first rule.
BeforeFirstRule == pc = "rules" /\ history = <<>>

\* C17: when the first rule is about to be evaluated, every add-fields name
\* is in the record, with its default where the record as read lacked it or
\* had it empty and with the value read otherwise; every record evaluated
\* by a rule or returned by process_row has every add-fields name.
C17_DefaultsBackfilled == \A i \in 1..Len(config.add_fields) : LET name == config.add_fields[i].name IN
                              /\ BeforeFirstRule =>
                                     /\ Has(row, name)
                                     /\ Get(row, name) = IF Has(input_row, name) /\ Get(input_row, name) # <<>> THEN Get(input_row, name) ELSE DefaultOf(name)
                                     /\ rule_idx = 1
                              /\ \A k \in 1..Len(history) : Has(RowBefore(k), name) /\ Has(history[k][3], name)
                              /\ Returned => \A j \in 1..Len(matched_rows) : Has(matched_rows[j], name)

\* A record read with an empty status cell, returned with the default.
C17_Witness == /\ Returned /\ matched_rows # <<>> /\ config.add_fields # <<>>
               /\ Has(input_row, "status") /\ Get(input_row, "status") = <<>>
               /\ Get(matched_rows[1], "status") = <<"n">>
               /\ Len(history) > 0

\* The names in the schema before the provenance step: the keys of the
\* sample record and the add-fields names.
SchemaBase == {Keys(SampleRow)[i] : i \in 1..Len(Keys(SampleRow))} \cup {config.add_fields[i].name : i \in 1..Len(config.add_fields)}

\* C18: an explicit non-empty output.fields list is the schema as it stands;
\* without one the schema has the names of the sample record and the
\* add-fields, each once, and both provenance fields, with the rule field
\* first when it was missing and the file field second when it was missing.
C18_ProvenanceFields == computed_fields # NoneVal =>
                            IF config.output.fields # <<>>
                            THEN computed_fields = config.output.fields
                            ELSE /\ {computed_fields[i] : i \in 1..Len(computed_fields)} = SchemaBase \cup {RuleField(config), FileField(config)}
                                 /\ Len(computed_fields) = Cardinality(SchemaBase \cup {RuleField(config), FileField(config)})
                                 /\ RuleField(config) \notin SchemaBase => computed_fields[1] = RuleField(config)
                                 /\ FileField(config) \notin SchemaBase => computed_fields[2] = FileField(config)

\* An explicit list with neither provenance field became the schema and the
\* header.
C18_Witness == /\ config.output.fields # <<>>
               /\ ~InSeq(RuleField(config), config.output.fields) /\ ~InSeq(FileField(config), config.output.fields)
               /\ computed_fields = config.output.fields
               /\ Headers # {} /\ \A i \in Headers : output[i].cells = config.output.fields

\* The lines of the output that are rows.
RowLines == {i \in 1..Len(output) : output[i].kind = "row"}

\* C19: the rows of the output are in input order, by file in listing order
\* and by record within a file, and a row of a schema with the
\* file-provenance field has the base name of its record's file there.
C19_InputOrder == /\ \A i, j \in RowLines : i < j =>
                         \/ output[i].file < output[j].file
                         \/ output[i].file = output[j].file /\ output[i].row <= output[j].row
                  /\ \A i \in RowLines : InSeq(FileField(config), computed_fields) =>
                         output[i].cells[IndexOf(writer_fieldnames, FileField(config))] = <<files[output[i].file].name>>
                  /\ pc \in {"rules", "returned"} => \A i \in RowLines : output[i].file < file_idx \/ (output[i].file = file_idx /\ output[i].row < row_idx)

\* Two copies of one record, then a row of a later record of the file, then
\* a row of the next file, each with its file's name.
C19_Witness == \E i, j, k, l \in RowLines :
                   /\ i < j /\ j < k /\ k < l
                   /\ output[i].file = output[j].file /\ output[i].row = output[j].row
                   /\ output[k].file = output[i].file /\ output[k].row > output[j].row
                   /\ output[l].file > output[k].file
                   /\ InSeq(FileField(config), computed_fields)
                   /\ output[i].cells[IndexOf(writer_fieldnames, FileField(config))] # output[l].cells[IndexOf(writer_fieldnames, FileField(config))]

\* Rule k matched with an action that is none of the four.
OtherAt(k) == history[k][2] = "other"

\* C20: a matching rule with an action that is none of drop-row, replace,
\* create-row and pipe leaves the record as it was and adds no copy, and the
\* record counts as matched: when only such rules matched, process_row
\* returns the record alone, as the first rule saw it, whatever
\* drop-unmatched says.
C20_UnknownAction == /\ \A k \in 1..Len(history) : OtherAt(k) => history[k][3] = RowBefore(k)
                     /\ pc = "rules" => Len(processed_rows) = Cardinality(CreatesUpTo(Len(history)))
                     /\ pc = "rules" /\ (\E k \in 1..Len(history) : OtherAt(k)) => ~no_rule_matched
                     /\ Returned /\ (\E k \in 1..Len(history) : OtherAt(k)) /\ (\A k \in 1..Len(history) : history[k][2] \in {"skip", "other"}) =>
                            /\ matched_rows = <<RowBefore(1)>>
                            /\ outcome = "original"

\* With drop-unmatched set, a record that only a rule of action "tag"
\* matched, after a rule that did not match, is returned.
C20_Witness == /\ Returned /\ config.output.drop_unmatched
               /\ Len(history) >= 2 /\ history[1][2] = "skip" /\ OtherAt(2)
               /\ \A k \in 1..Len(history) : history[k][2] \in {"skip", "other"}
               /\ matched_rows = <<row>>

====
